---- MODULE Spec2Model ----
(***************************************************************************)
(* Model of the GNSS Doppler residual block, src/src/gnss/doppler_error.cpp *)
(* (class DopplerError<Ns...>): construction with the selection of the      *)
(* parameter-block group, setInformation, and the evaluation                *)
(* Evaluate / EvaluateWithMinimalJacobians run by solver threads.            *)
(*                                                                          *)
(* Numbers.  The code computes in double; the model computes in exact       *)
(* rationals <<n, d>> (lowest terms, d > 0).  Inputs are drawn from small   *)
(* sets for which every range is rational, so that every value the code     *)
(* computes has an exact image.  The ratio OMGE / CLIGHT of the earth        *)
(* rotation correction is a fixed positive real; it is kept symbolic: a     *)
(* residual is a pair [a, k] standing for a + k * (OMGE / CLIGHT).          *)
(***************************************************************************)
EXTENDS Integers, Sequences, FiniteSets, TLC

VARIABLES proc, inst, pc, call, loc, out

vars == <<proc, inst, pc, call, loc, out>>

----------------------------------------------------------------------------
(* Exact rational arithmetic *)

Abs(n) == IF n < 0 THEN -n ELSE n

RECURSIVE GCD(_, _)
GCD(a, b) == IF b = 0 THEN a ELSE GCD(b, a % b)

Norm(n, d) ==
  LET g == GCD(Abs(n), Abs(d))
      s == IF d < 0 THEN -1 ELSE 1
  IN  <<(s * n) \div g, (s * d) \div g>>

Q(n) == <<n, 1>>
Zero == Q(0)
One == Q(1)
RAdd(x, y) ==
  IF x[1] = 0 THEN y ELSE IF y[1] = 0 THEN x
  ELSE Norm(x[1] * y[2] + y[1] * x[2], x[2] * y[2])
RNeg(x) == <<-x[1], x[2]>>
RSub(x, y) == RAdd(x, RNeg(y))
RMul(x, y) == IF x[1] = 0 \/ y[1] = 0 THEN <<0, 1>> ELSE Norm(x[1] * y[1], x[2] * y[2])
RInv(x) == Norm(x[2], x[1])
RDiv(x, y) == RMul(x, RInv(y))
RLess(x, y) == x[1] * y[2] < y[1] * x[2]

\* square root of a non-negative integer that is a perfect square
IsSquare(n) == \E r \in 0..n : r * r = n
ISqrt(n) == CHOOSE r \in 0..n : r * r = n
\* std::sqrt on the rationals whose root is rational
RIsSquare(x) == x[1] >= 0 /\ IsSquare(x[1]) /\ IsSquare(x[2])
RSqrt(x) == <<ISqrt(x[1]), ISqrt(x[2])>>

\* vectors are tuples of rationals, matrices tuples of rows
QV(v) == [i \in DOMAIN v |-> Q(v[i])]
ZeroVec(n) == [i \in 1..n |-> Zero]
VAdd(u, v) == [i \in DOMAIN u |-> RAdd(u[i], v[i])]
VSub(u, v) == [i \in DOMAIN u |-> RSub(u[i], v[i])]
VNeg(u) == [i \in DOMAIN u |-> RNeg(u[i])]
VScale(c, u) == [i \in DOMAIN u |-> RMul(c, u[i])]
VDivide(u, c) == [i \in DOMAIN u |-> RDiv(u[i], c)]

RECURSIVE DotTo(_, _, _)
DotTo(u, v, n) ==
  IF n = 0 THEN Zero ELSE RAdd(DotTo(u, v, n - 1), RMul(u[n], v[n]))
Dot(u, v) == DotTo(u, v, Len(u))
Cross(u, v) ==
  << RSub(RMul(u[2], v[3]), RMul(u[3], v[2])),
     RSub(RMul(u[3], v[1]), RMul(u[1], v[3])),
     RSub(RMul(u[1], v[2]), RMul(u[2], v[1])) >>
Column(M, j) == [i \in DOMAIN M |-> M[i][j]]
MatVec(M, v) == [i \in DOMAIN M |-> Dot(M[i], v)]
\* row vector times matrix
RECURSIVE VecColTo(_, _, _, _)
VecColTo(v, M, j, n) ==
  IF n = 0 THEN Zero ELSE RAdd(VecColTo(v, M, j, n - 1), RMul(v[n], M[n][j]))
VecMat(v, M) == [j \in DOMAIN M[1] |-> VecColTo(v, M, j, Len(v))]
MatMul(A, B) == [i \in DOMAIN A |-> VecMat(A[i], B)]
MatNeg(A) == [i \in DOMAIN A |-> VNeg(A[i])]
Identity3 == << <<One, Zero, Zero>>, <<Zero, One, Zero>>, <<Zero, Zero, One>> >>

----------------------------------------------------------------------------
(* Collaborators of the residual block *)

\* square(x), gici/utility
square(x) == RMul(x, x)

\* skewSymmetric(w): the matrix of the cross product w x .
skewSymmetric(w) ==
  << <<Zero, RNeg(w[3]), w[2]>>,
     <<w[3], Zero, RNeg(w[1])>>,
     <<RNeg(w[2]), w[1], Zero>> >>

\* A quaternion is stored as Eigen stores it: coefficients <<x, y, z, w>>.
\* Eigen::Quaterniond::toRotationMatrix()
toRotationMatrix(q) ==
  LET x == q[1]  y == q[2]  z == q[3]  w == q[4]
      two == Q(2)
      tx == RMul(two, x)  ty == RMul(two, y)  tz == RMul(two, z)
      twx == RMul(tx, w)  twy == RMul(ty, w)  twz == RMul(tz, w)
      txx == RMul(tx, x)  txy == RMul(ty, x)  txz == RMul(tz, x)
      tyy == RMul(ty, y)  tyz == RMul(tz, y)  tzz == RMul(tz, z)
  IN << <<RSub(One, RAdd(tyy, tzz)), RSub(txy, twz), RAdd(txz, twy)>>,
        <<RAdd(txy, twz), RSub(One, RAdd(txx, tzz)), RSub(tyz, twx)>>,
        <<RSub(txz, twy), RAdd(tyz, twx), RSub(One, RAdd(txx, tyy))>> >>

\* Eigen's q * v (QuaternionBase::_transformVector)
transformVector(q, v) ==
  LET u == <<q[1], q[2], q[3]>>
      uv == VScale(Q(2), Cross(u, v))
  IN  VAdd(VAdd(v, VScale(q[4], uv)), Cross(u, uv))

\* The frame-conversion utility (GeoCoordinate): a coordinate is
\* [set, zero, origin, R]: whether the pointer is non-null, whether the local
\* origin is established, the origin in ECEF and the rotation ECEF <- ENU.
isZeroSetted(c) == c.zero
\* convert(v, GeoType::ENU, GeoType::ECEF)
convert(c, v) == VAdd(c.origin, MatVec(c.R, v))
\* rotate(v, GeoType::ENU, GeoType::ECEF)
rotate(c, v) == MatVec(c.R, v)
\* rotationMatrix(GeoType::ENU, GeoType::ECEF)
rotationMatrix(c) == c.R

\* gnss_common::satelliteToReceiverDistance: the Euclidean distance
DistanceSquared(p_sat, p_rcv) == Dot(VSub(p_sat, p_rcv), VSub(p_sat, p_rcv))
satelliteToReceiverDistance(p_sat, p_rcv) == RSqrt(DistanceSquared(p_sat, p_rcv))

\* okvis-style oplus(q) of the pose parameterization
oplus(q) ==
  << <<q[4], q[3], RNeg(q[2]), q[1]>>,
     <<RNeg(q[3]), q[4], q[1], q[2]>>,
     <<q[2], RNeg(q[1]), q[4], q[3]>>,
     <<RNeg(q[1]), RNeg(q[2]), RNeg(q[3]), q[4]>> >>

\* PoseLocalParameterization::liftJacobian(x): the 6x7 matrix
\* [ I3 0 ; 0 2 * (top three rows of oplus(q^-1)) ] of the raw pose x
liftJacobian(x) ==
  LET q_inv == <<RNeg(x[4]), RNeg(x[5]), RNeg(x[6]), x[7]>>
      Qplus == oplus(q_inv)
      z3 == ZeroVec(3)
      z4 == ZeroVec(4)
  IN  [i \in 1..6 |->
        IF i <= 3 THEN Identity3[i] \o z4
        ELSE z3 \o VScale(Q(2), Qplus[i - 3])]

----------------------------------------------------------------------------
(* DopplerError<Ns...>: construction *)

\* dims is the tuple Ns... of the template; kNumParameterBlocks = Len(dims)
\* and GetDim(i) = dims[i + 1].  0 stands for the LOG(FATAL) branch.
\* the same check without the size of the last block
GroupIgnoringLastDim(dims) ==
  IF Len(dims) = 3 /\ dims[1] = 3 /\ dims[2] = 3 THEN 1
  ELSE IF Len(dims) = 4 /\ dims[1] = 7 /\ dims[2] = 9 /\ dims[3] = 3 THEN 2
  ELSE 0

ParameterBlockGroup(dims) ==
  IF Len(dims) = 3 /\ dims[1] = 3 /\ dims[2] = 3 /\ dims[3] = 1 THEN 1
  ELSE IF Len(dims) = 4 /\ dims[1] = 7 /\ dims[2] = 9
          /\ dims[3] = 3 /\ dims[4] = 1 THEN 2
  ELSE 0

\* the 1x1 Cholesky factor L of the information, transposed
CholeskyUpper(information) == RSqrt(information)

\* covariance_ = square(factor) * square(system_error_ratio.at(system))
Covariance(satellite, error_parameter) ==
  LET factor == error_parameter.doppler_error_factor
  IN  RMul(square(factor),
           square(error_parameter.system_error_ratio[satellite.system]))

\* the weighting of the error factor alone
SqrtInfoWithoutSystemRatio(satellite, error_parameter) ==
  CholeskyUpper(RInv(square(error_parameter.doppler_error_factor)))

\* square_root_information_ = LLT(information_).matrixL().transpose()
SquareRootInformation(satellite, error_parameter) ==
  CholeskyUpper(RInv(Covariance(satellite, error_parameter)))

setInformation(I, error_parameter) ==
  LET covariance == Covariance(I.satellite_, error_parameter)
      sri == SquareRootInformation(I.satellite_, error_parameter)
  IN  [I EXCEPT !.error_parameter_ = error_parameter,
                !.covariance_ = covariance,
                !.information_ = RInv(covariance),
                !.square_root_information_ = sri,
                !.square_root_information_inverse_ = RInv(sri)]

NullCoordinate ==
  [set |-> FALSE, zero |-> FALSE, origin |-> ZeroVec(3), R |-> Identity3]

\* The object before its constructor has run.  angular_velocity_ has no
\* initializer: its value is whatever the storage holds (chosen by the
\* constructor action); angular_velocity_set records whether the
\* four-argument constructor assigned it.
Unconstructed ==
  [state |-> "none", dims |-> <<>>,
   is_estimate_body_ |-> FALSE, parameter_block_group_ |-> 0,
   satellite_ |-> [system |-> "G", sat_position |-> ZeroVec(3),
                   sat_velocity |-> ZeroVec(3), sat_frequency |-> Zero],
   observation_ |-> [doppler |-> Zero],
   error_parameter_ |-> [doppler_error_factor |-> Zero,
                         system_error_ratio |-> [s \in {"G", "R"} |-> Zero]],
   covariance_ |-> Zero, information_ |-> Zero,
   square_root_information_ |-> Zero,
   square_root_information_inverse_ |-> Zero,
   angular_velocity_ |-> ZeroVec(3), angular_velocity_set |-> FALSE,
   coordinate_ |-> NullCoordinate]

\* The three-argument constructor, on storage whose angular_velocity_ holds
\* `garbage`.  In the LOG(FATAL) branch the object is never completed.
Constructed(measurement, index, error_parameter, dims, garbage) ==
  LET group == ParameterBlockGroup(dims)
      I0 == [Unconstructed EXCEPT
               !.dims = dims,
               !.satellite_ = measurement[index].sat,
               !.observation_ = measurement[index].obs,
               !.angular_velocity_ = garbage]
  IN  IF group = 0 THEN [I0 EXCEPT !.state = "fatal"]
      ELSE setInformation(
             [I0 EXCEPT !.state = "ok",
                        !.is_estimate_body_ = (group = 2),
                        !.parameter_block_group_ = group],
             error_parameter)

----------------------------------------------------------------------------
(* EvaluateWithMinimalJacobians: the values it computes.                   *)
(* parameters is the tuple of parameter blocks (parameters[i + 1] is the   *)
(* code's parameters[i]); a Jacobian array is [null, blk]: whether the     *)
(* array pointer is null and, per block, whether its buffer is non-null.   *)

\* the locals of one call before anything is assigned
NoLocals ==
  [t_WR_ECEF |-> ZeroVec(3), v_WR_ECEF |-> ZeroVec(3), clock_frequency |-> Zero,
   q_WS |-> ZeroVec(4), t_SR_S |-> ZeroVec(3), rho |-> Zero]

\* the two LOG(FATAL) preconditions of the body-referenced branch
DecodeFatal(I) ==
  I.is_estimate_body_ /\ (~I.coordinate_.set \/ ~isZeroSetted(I.coordinate_))

\* the velocity taken through convert, which adds the origin
ReceiverVelocityConverted(coordinate, v_WR) == convert(coordinate, v_WR)

\* v_WR_ECEF = coordinate_->rotate(v_WR, ENU, ECEF)
ReceiverVelocityECEF(coordinate, v_WR) == rotate(coordinate, v_WR)

\* the state decoding, for a factor whose preconditions hold
Decode(I, parameters) ==
  IF ~I.is_estimate_body_
  THEN [NoLocals EXCEPT !.t_WR_ECEF = parameters[1],
                        !.v_WR_ECEF = parameters[2],
                        !.clock_frequency = parameters[3][1]]
  ELSE LET t_WS_W == SubSeq(parameters[1], 1, 3)
           q_WS == SubSeq(parameters[1], 4, 7)
           v_WS == SubSeq(parameters[2], 1, 3)
           t_SR_S == parameters[3]
           t_WR_W == VAdd(t_WS_W, transformVector(q_WS, t_SR_S))
           v_WR == VAdd(v_WS,
                        MatVec(MatMul(skewSymmetric(I.angular_velocity_),
                                      toRotationMatrix(q_WS)), t_SR_S))
       IN  [NoLocals EXCEPT
              !.t_WR_ECEF = convert(I.coordinate_, t_WR_W),
              !.v_WR_ECEF = ReceiverVelocityECEF(I.coordinate_, v_WR),
              !.clock_frequency = parameters[4][1],
              !.q_WS = q_WS,
              !.t_SR_S = t_SR_S]

\* e = (sat_position - t_WR_ECEF) / rho
LineOfSight(I, L) == VDivide(VSub(I.satellite_.sat_position, L.t_WR_ECEF), L.rho)

\* the unweighted error doppler - doppler_estimate, as
\* a + k * (OMGE / CLIGHT)
Error(I, L) ==
  LET e == LineOfSight(I, L)
      v_sat == I.satellite_.sat_velocity
      p_sat == I.satellite_.sat_position
      vs == VSub(v_sat, L.v_WR_ECEF)
      correction ==
        RSub(RSub(RAdd(RMul(v_sat[2], L.t_WR_ECEF[1]), RMul(p_sat[2], L.v_WR_ECEF[1])),
                  RMul(v_sat[1], L.t_WR_ECEF[2])),
             RMul(p_sat[1], L.v_WR_ECEF[2]))
      rate == Dot(vs, e)
      estimate == RSub(RAdd(rate, L.clock_frequency), I.satellite_.sat_frequency)
  IN  [a |-> RSub(I.observation_.doppler, estimate), k |-> RNeg(correction)]

\* weighted_error = square_root_information_ * error
WeightedError(I, L) ==
  LET error == Error(I, L)
  IN  [a |-> RMul(I.square_root_information_, error.a),
       k |-> RMul(I.square_root_information_, error.k)]

J_t_ECEF == ZeroVec(3)

\* the same without the leading minus
J_v_ECEF_Negated(I, L) ==
  VDivide(VSub(L.t_WR_ECEF, I.satellite_.sat_position), L.rho)

\* J_v_ECEF = -((t_WR_ECEF - sat_position) / rho)^T
J_v_ECEF(I, L) ==
  VNeg(VDivide(VSub(L.t_WR_ECEF, I.satellite_.sat_position), L.rho))

\* the ECEF row taken as the ENU row
J_v_W_Unrotated(I, L) == J_v_ECEF(I, L)

\* J_v_W = J_v_ECEF * R_ECEF_ENU
J_v_W(I, L) == VecMat(J_v_ECEF(I, L), rotationMatrix(I.coordinate_))

J_q_WS(I, L) ==
  VecMat(VecMat(J_v_W(I, L), skewSymmetric(I.angular_velocity_)),
         MatNeg(skewSymmetric(MatVec(toRotationMatrix(L.q_WS), L.t_SR_S))))

\* J_T_WS: [ J_t_W = 0 | J_q_WS ]
J_T_WS(I, L) == ZeroVec(3) \o J_q_WS(I, L)

J_speed_and_bias(I, L) == J_v_W(I, L) \o ZeroVec(6)

J_t_SR_S(I, L) ==
  VecMat(VecMat(J_v_W(I, L), skewSymmetric(I.angular_velocity_)),
         toRotationMatrix(L.q_WS))

J_freq == <<RNeg(One)>>

IdentityPose == <<Zero, Zero, Zero, Zero, Zero, Zero, One>>

\* the lift matrix of a fixed pose instead of the call's
PoseRawWithStaleLift(J0_minimal, parameters) ==
  VecMat(J0_minimal, liftJacobian(IdentityPose))

\* J0 = J0_minimal * J_lift, J_lift = liftJacobian(parameters[0])
PoseRaw(J0_minimal, parameters) ==
  VecMat(J0_minimal, liftJacobian(parameters[1]))

\* the minimal Jacobian of block i (1-based)
MinimalJacobian(I, L, i) ==
  LET w == I.square_root_information_
  IN  IF I.parameter_block_group_ = 1
      THEN CASE i = 1 -> VScale(w, J_t_ECEF)
             [] i = 2 -> VScale(w, J_v_ECEF(I, L))
             [] OTHER -> VScale(w, J_freq)
      ELSE CASE i = 1 -> VScale(w, J_T_WS(I, L))
             [] i = 2 -> VScale(w, J_speed_and_bias(I, L))
             [] i = 3 -> VScale(w, J_t_SR_S(I, L))
             [] OTHER -> VScale(w, J_freq)

\* the raw Jacobian of block i (1-based)
RawJacobian(I, L, parameters, i) ==
  IF I.parameter_block_group_ = 2 /\ i = 1
  THEN PoseRaw(MinimalJacobian(I, L, 1), parameters)
  ELSE MinimalJacobian(I, L, i)

\* block i written only if the blocks before it are
WritesRawNested(jacobians, i) ==
  ~jacobians.null /\ \A j \in 1..i : jacobians.blk[j]

\* jacobians != nullptr && jacobians[i] != nullptr
WritesRaw(jacobians, i) == ~jacobians.null /\ jacobians.blk[i]

\* the minimal test outside the raw branch
WritesMinimalWithoutRaw(jacobians, jacobians_minimal, i) ==
  ~jacobians_minimal.null /\ jacobians_minimal.blk[i]

\* inside the raw branch:
\* jacobians_minimal != nullptr && jacobians_minimal[i] != nullptr
WritesMinimal(jacobians, jacobians_minimal, i) ==
  WritesRaw(jacobians, i) /\ ~jacobians_minimal.null /\ jacobians_minimal.blk[i]

----------------------------------------------------------------------------
(* State *)
(* proc: "running", or "aborted" once a LOG(FATAL) has ended the process.  *)
(* inst: the factor object.  Per solver thread t: pc[t] is its position in  *)
(* the evaluation, call[t] the arguments of its call, loc[t] the locals of  *)
(* the call, out[t] the caller's buffers: [written, v] for the residual     *)
(* and for each raw and each minimal Jacobian buffer.                       *)

NumThreads == 2

NullArray(n) == [null |-> TRUE, blk |-> [i \in 1..n |-> FALSE]]
\* every way of passing a Jacobian array for n blocks
AllArrays(n) ==
  {NullArray(n)} \cup {[null |-> FALSE, blk |-> b] : b \in [1..n -> BOOLEAN]}
\* only the array with every buffer present
FullArrays(n) == {[null |-> FALSE, blk |-> [i \in 1..n |-> TRUE]]}

Untouched == [written |-> FALSE, v |-> <<>>]
UntouchedResidual == [written |-> FALSE, v |-> [a |-> Zero, k |-> Zero]]
NoCall ==
  [parameters |-> <<>>, jacobians |-> NullArray(0),
   jacobians_minimal |-> NullArray(0), entry |-> "none"]
NoOutput == [residuals |-> UntouchedResidual, jacobians |-> <<>>, jacobians_minimal |-> <<>>]
FreshOutput(n) ==
  [residuals |-> UntouchedResidual,
   jacobians |-> [i \in 1..n |-> Untouched],
   jacobians_minimal |-> [i \in 1..n |-> Untouched]]

InitFor(Threads) ==
  /\ proc = "running"
  /\ inst = Unconstructed
  /\ pc = [t \in Threads |-> "idle"]
  /\ call = [t \in Threads |-> NoCall]
  /\ loc = [t \in Threads |-> NoLocals]
  /\ out = [t \in Threads |-> NoOutput]

----------------------------------------------------------------------------
(* Operations.  In is the record of the sets the inputs are drawn from.    *)

\* DopplerError(measurement, index, error_parameter)
DopplerError3(In) ==
  /\ proc = "running" /\ inst.state = "none"
  /\ \E m \in In.measurements, dims \in In.dims, ep \in In.error_parameters,
        garbage \in In.angular_velocities :
       \E index \in DOMAIN m :
         /\ inst' = Constructed(m, index, ep, dims, garbage)
         /\ proc' = IF inst'.state = "fatal" THEN "aborted" ELSE "running"
  /\ UNCHANGED <<pc, call, loc, out>>

\* DopplerError(measurement, index, error_parameter, angular_velocity):
\* the delegated constructor, then the assignment of angular_velocity_
DopplerError4(In) ==
  /\ proc = "running" /\ inst.state = "none"
  /\ \E m \in In.measurements, dims \in In.dims, ep \in In.error_parameters,
        garbage \in In.angular_velocities, angular_velocity \in In.angular_velocities :
       \E index \in DOMAIN m :
         LET I == Constructed(m, index, ep, dims, garbage)
         IN  /\ inst' = IF I.state = "fatal" THEN I
                        ELSE [I EXCEPT !.angular_velocity_ = angular_velocity,
                                       !.angular_velocity_set = TRUE]
             /\ proc' = IF I.state = "fatal" THEN "aborted" ELSE "running"
  /\ UNCHANGED <<pc, call, loc, out>>

\* setCoordinate(coordinate), before the factor is handed to the solver; only
\* the body-referenced branch reads coordinate_
setCoordinate(In) ==
  /\ proc = "running" /\ inst.state = "ok" /\ inst.is_estimate_body_
  /\ ~inst.coordinate_.set
  /\ \A t \in DOMAIN pc : pc[t] = "idle"
  /\ \E c \in In.coordinates : inst' = [inst EXCEPT !.coordinate_ = c]
  /\ UNCHANGED <<proc, pc, call, loc, out>>

\* The inputs are kept to those whose range is a non-zero rational.
RangeRepresentable(I, parameters) ==
  DecodeFatal(I) \/
    LET d2 == DistanceSquared(I.satellite_.sat_position, Decode(I, parameters).t_WR_ECEF)
    IN  RIsSquare(d2) /\ d2 # Zero

ParameterSet(In, I) == IF I.parameter_block_group_ = 1 THEN In.direct ELSE In.body

Enter(t, parameters, jacobians, jacobians_minimal, entry) ==
  /\ RangeRepresentable(inst, parameters)
  /\ pc' = [pc EXCEPT ![t] = "decode"]
  /\ call' = [call EXCEPT ![t] =
       [parameters |-> parameters, jacobians |-> jacobians,
        jacobians_minimal |-> jacobians_minimal, entry |-> entry]]
  /\ loc' = [loc EXCEPT ![t] = NoLocals]
  /\ out' = [out EXCEPT ![t] = FreshOutput(Len(inst.dims))]
  /\ UNCHANGED <<proc, inst>>

\* Evaluate(parameters, residuals, jacobians): the call enters
\* EvaluateWithMinimalJacobians with jacobians_minimal = nullptr
Evaluate(t, In) ==
  /\ proc = "running" /\ inst.state = "ok" /\ pc[t] = "idle"
  /\ \E parameters \in ParameterSet(In, inst),
        jacobians \in In.arrays[Len(inst.dims)] :
       Enter(t, parameters, jacobians, NullArray(Len(inst.dims)), "Evaluate")

\* EvaluateWithMinimalJacobians(parameters, residuals, jacobians,
\* jacobians_minimal), called directly
EvaluateWithMinimalJacobians(t, In) ==
  /\ proc = "running" /\ inst.state = "ok" /\ pc[t] = "idle"
  /\ \E parameters \in ParameterSet(In, inst),
        jacobians \in In.arrays[Len(inst.dims)],
        jacobians_minimal \in In.arrays[Len(inst.dims)] :
       Enter(t, parameters, jacobians, jacobians_minimal,
             "EvaluateWithMinimalJacobians")

\* the locals as storage shared by all calls
StoreLocalsShared(locals, t, L) == [u \in DOMAIN locals |-> L]

\* the locals are automatic variables of the call
StoreLocals(locals, t, L) == [locals EXCEPT ![t] = L]

\* the state decoding, with the two LOG(FATAL) checks
StepDecode(t) ==
  /\ proc = "running" /\ pc[t] = "decode"
  /\ IF DecodeFatal(inst)
     THEN /\ proc' = "aborted"
          /\ UNCHANGED <<inst, pc, call, loc, out>>
     ELSE /\ loc' = StoreLocals(loc, t, Decode(inst, call[t].parameters))
          /\ pc' = [pc EXCEPT ![t] = "residual"]
          /\ UNCHANGED <<proc, inst, call, out>>

\* range, prediction and the weighted residual (the elevation and azimuth
\* computed beside the range are not used)
StepResidual(t) ==
  /\ proc = "running" /\ pc[t] = "residual"
  /\ LET L == [loc[t] EXCEPT !.rho =
                 satelliteToReceiverDistance(inst.satellite_.sat_position,
                                             loc[t].t_WR_ECEF)]
     IN  /\ loc' = StoreLocals(loc, t, L)
         /\ out' = [out EXCEPT ![t].residuals =
                      [written |-> TRUE, v |-> WeightedError(inst, L)]]
  /\ pc' = [pc EXCEPT ![t] = "jacobians"]
  /\ UNCHANGED <<proc, inst, call>>

\* the Jacobian blocks, then return true
StepJacobians(t) ==
  /\ proc = "running" /\ pc[t] = "jacobians"
  /\ LET c == call[t]
         n == Len(inst.dims)
     IN  out' = [out EXCEPT
           ![t].jacobians = [i \in 1..n |->
              IF WritesRaw(c.jacobians, i)
              THEN [written |-> TRUE,
                    v |-> RawJacobian(inst, loc[t], c.parameters, i)]
              ELSE out[t].jacobians[i]],
           ![t].jacobians_minimal = [i \in 1..n |->
              IF WritesMinimal(c.jacobians, c.jacobians_minimal, i)
              THEN [written |-> TRUE, v |-> MinimalJacobian(inst, loc[t], i)]
              ELSE out[t].jacobians_minimal[i]]]
  /\ pc' = [pc EXCEPT ![t] = "done"]
  /\ UNCHANGED <<proc, inst, call, loc>>

\* return true: the caller takes the buffers and the thread is free again
Return(t) ==
  /\ proc = "running" /\ pc[t] = "done"
  /\ pc' = [pc EXCEPT ![t] = "idle"]
  /\ call' = [call EXCEPT ![t] = NoCall]
  /\ loc' = [loc EXCEPT ![t] = NoLocals]
  /\ out' = [out EXCEPT ![t] = NoOutput]
  /\ UNCHANGED <<proc, inst>>

NextFor(Threads, In) ==
  \/ DopplerError3(In)
  \/ DopplerError4(In)
  \/ setCoordinate(In)
  \/ \E t \in Threads :
       \/ Evaluate(t, In)
       \/ EvaluateWithMinimalJacobians(t, In)
       \/ StepDecode(t)
       \/ StepResidual(t)
       \/ StepJacobians(t)
       \/ Return(t)

----------------------------------------------------------------------------
(* Input sets *)

\* one epoch with two satellites: index |-> satellite and observation
Measurement ==
  << [sat |-> [system |-> "G", sat_position |-> QV(<<1, 2, 2>>),
               sat_velocity |-> QV(<<0, 3, 0>>), sat_frequency |-> Zero],
      obs |-> [doppler |-> Q(2)]],
     [sat |-> [system |-> "R", sat_position |-> QV(<<3, 4, 0>>),
               sat_velocity |-> QV(<<1, 0, -1>>), sat_frequency |-> One],
      obs |-> [doppler |-> Q(-1)]] >>

SystemErrorRatio(g, r) == [s \in {"G", "R"} |-> IF s = "G" THEN g ELSE r]
ErrorParameters ==
  { [doppler_error_factor |-> One, system_error_ratio |-> SystemErrorRatio(One, Q(2))],
    [doppler_error_factor |-> Q(2), system_error_ratio |-> SystemErrorRatio(One, Q(2))],
    [doppler_error_factor |-> One, system_error_ratio |-> SystemErrorRatio(Q(2), Q(3))] }

\* template arguments: the two supported tuples and unsupported ones
DimTuples ==
  { <<3, 3, 1>>, <<7, 9, 3, 1>>, <<3, 3>>, <<3, 3, 3>>, <<3, 1, 3>>,
    <<7, 9, 3>>, <<7, 9, 3, 3>>, <<7, 9, 1, 3>>, <<3, 3, 1, 1>> }

AngularVelocities == { QV(<<0, 0, 0>>), QV(<<1, -1, 2>>) }

\* ENU at latitude 0, longitude 0: east = y, north = z, up = x
R_ECEF_ENU == << QV(<<0, 0, 1>>), QV(<<1, 0, 0>>), QV(<<0, 1, 0>>) >>

Coordinates ==
  { [set |-> TRUE, zero |-> FALSE, origin |-> ZeroVec(3), R |-> Identity3] }
  \cup { [set |-> TRUE, zero |-> TRUE, origin |-> ZeroVec(3), R |-> Identity3],
         [set |-> TRUE, zero |-> TRUE, origin |-> QV(<<2, 0, 0>>), R |-> R_ECEF_ENU] }

Positions == { QV(<<0, 0, 0>>), QV(<<0, 4, 0>>) }
Velocities == { QV(<<0, 0, 0>>), QV(<<1, 2, -1>>) }
Clocks == { <<Zero>>, <<One>> }
\* unit quaternions <<x, y, z, w>>: identity, a third of a turn about (1, 1, 1)
Rotations ==
  { QV(<<0, 0, 0, 1>>), <<Norm(1, 2), Norm(1, 2), Norm(1, 2), Norm(1, 2)>> }
LeverArms == { QV(<<0, 0, 0>>), QV(<<0, 4, 0>>), QV(<<4, 0, 0>>) }
Biases == { QV(<<1, 0, 0, 0, 0, 2>>) }

DirectParameters == { <<p, v, c>> : p \in Positions, v \in Velocities, c \in Clocks }
BodyParameters ==
  { <<p \o q, v \o b, l, c>> :
      p \in Positions, q \in Rotations, v \in Velocities, b \in Biases,
      l \in LeverArms, c \in Clocks }

\* Sequential use, every null pattern of the Jacobian arrays
BufferInputs ==
  [measurements |-> {Measurement},
   error_parameters |-> {CHOOSE ep \in ErrorParameters : TRUE},
   dims |-> DimTuples,
   angular_velocities |-> {QV(<<0, 0, 1>>)},
   coordinates |-> {c \in Coordinates : c.R = Identity3 /\ c.origin = ZeroVec(3)},
   direct |-> {<<QV(<<0, 0, 0>>), QV(<<1, 0, 0>>), <<One>>>>},
   body |-> {<<QV(<<0, 0, 0, 0, 0, 0, 1>>), QV(<<1, 0, 0>>) \o ZeroVec(6),
               QV(<<0, 4, 0>>), <<One>>>>},
   arrays |-> [n \in 1..4 |-> AllArrays(n)]]

\* Sequential use, the full range of numeric inputs
NumericInputs ==
  [measurements |-> {Measurement},
   error_parameters |-> ErrorParameters,
   dims |-> {<<3, 3, 1>>, <<7, 9, 3, 1>>, <<3, 3>>},
   angular_velocities |-> AngularVelocities,
   coordinates |-> Coordinates,
   direct |-> DirectParameters,
   body |-> BodyParameters,
   arrays |-> [n \in 1..4 |-> FullArrays(n)]]

\* Concurrent use by the solver's threads
ConcurrentInputs ==
  [measurements |-> {<<Measurement[1]>>},
   error_parameters |-> {CHOOSE ep \in ErrorParameters : TRUE},
   dims |-> {<<3, 3, 1>>, <<7, 9, 3, 1>>, <<3, 3>>},
   angular_velocities |-> {QV(<<0, 0, 1>>)},
   coordinates |-> {c \in Coordinates : c.R = Identity3 /\ c.origin = ZeroVec(3)},
   direct |-> {<<QV(<<0, 0, 0>>), QV(<<1, 0, 0>>), <<One>>>>,
               <<QV(<<2, 0, 0>>), QV(<<0, 2, -1>>), <<Zero>>>>},
   body |-> {<<QV(<<0, 0, 0, 0, 0, 0, 1>>), QV(<<1, 0, 0>>) \o ZeroVec(6),
               QV(<<0, 4, 0>>), <<One>>>>,
             <<QV(<<2, 0, 0, 0, 0, 0, 1>>), QV(<<0, 2, -1>>) \o ZeroVec(6),
               QV(<<0, 0, 0>>), <<Zero>>>>},
   arrays |-> [n \in 1..4 |-> FullArrays(n)]]

Init == InitFor({1})
Next == NextFor({1}, BufferInputs)
Spec == Init /\ [][Next]_vars

NextNumeric == NextFor({1}, NumericInputs)
SpecNumeric == Init /\ [][NextNumeric]_vars

InitConcurrent == InitFor(1..NumThreads)
NextConcurrent == NextFor(1..NumThreads, ConcurrentInputs)
SpecConcurrent == InitConcurrent /\ [][NextConcurrent]_vars

----------------------------------------------------------------------------
(* Helpers of the properties *)

Threads == DOMAIN pc
Lin(x) == [a |-> x, k |-> Zero]
LinZero == Lin(Zero)
LinSub(u, v) == [a |-> RSub(u.a, v.a), k |-> RSub(u.k, v.k)]
LinScale(c, u) == [a |-> RMul(c, u.a), k |-> RMul(c, u.k)]
\* Order of a + k * (OMGE / CLIGHT): the ratio (about 2.4e-13) is positive
\* and far below every quotient of values of the model, so the order is
\* the lexicographic one.
LinLess(u, v) == RLess(u.a, v.a) \/ (u.a = v.a /\ RLess(u.k, v.k))
LinAbs(u) == IF LinLess(u, LinZero) THEN LinScale(RNeg(One), u) ELSE u

\* a call that has written its residual
Weighed(t) == pc[t] \in {"jacobians", "done"}
\* the locals of a whole call of the factor I on `parameters`
LocalsOf(I, parameters) ==
  LET L == Decode(I, parameters)
  IN  [L EXCEPT !.rho = satelliteToReceiverDistance(I.satellite_.sat_position,
                                                     L.t_WR_ECEF)]
\* what one call, run alone on the factor I, leaves in the caller's buffers
RunAlone(I, c) ==
  LET n == Len(I.dims)
      L == LocalsOf(I, c.parameters)
  IN  [residuals |-> [written |-> TRUE, v |-> WeightedError(I, L)],
       jacobians |-> [i \in 1..n |->
          IF WritesRaw(c.jacobians, i)
          THEN [written |-> TRUE, v |-> RawJacobian(I, L, c.parameters, i)]
          ELSE Untouched],
       jacobians_minimal |-> [i \in 1..n |->
          IF WritesMinimal(c.jacobians, c.jacobians_minimal, i)
          THEN [written |-> TRUE, v |-> MinimalJacobian(I, L, i)]
          ELSE Untouched]]

----------------------------------------------------------------------------
(* C1: construction selects the variant from the block sizes alone:        *)
(* (3,3,1) gives group 1 with is_estimate_body_ false, (7,9,3,1) gives      *)
(* group 2 with is_estimate_body_ true, and every other tuple ends in the   *)
(* fatal error: the process is aborted and no evaluation ever starts.       *)
C1_VariantSelection ==
  inst.state # "none" =>
    /\ inst.dims = <<3, 3, 1>> =>
         inst.state = "ok" /\ inst.parameter_block_group_ = 1
         /\ ~inst.is_estimate_body_
    /\ inst.dims = <<7, 9, 3, 1>> =>
         inst.state = "ok" /\ inst.parameter_block_group_ = 2
         /\ inst.is_estimate_body_
    /\ inst.dims \notin {<<3, 3, 1>>, <<7, 9, 3, 1>>} =>
         /\ inst.state = "fatal" /\ proc = "aborted"
         /\ \A t \in Threads : pc[t] = "idle" /\ ~out[t].residuals.written

C1_Witness ==
  /\ inst.state = "fatal" /\ inst.dims = <<7, 9, 3, 3>> /\ proc = "aborted"

(* C2 as claimed: an evaluation of a body-referenced factor writes its     *)
(* residual only if the coordinate is set, has its zero set and the angular *)
(* velocity was assigned by the constructor; a direct factor's evaluation   *)
(* never aborts the process.                                                *)
C2_FatalPreconditions ==
  /\ \A t \in Threads :
       (inst.is_estimate_body_ /\ out[t].residuals.written) =>
         /\ inst.coordinate_.set /\ isZeroSetted(inst.coordinate_)
         /\ inst.angular_velocity_set
  /\ (proc = "aborted" /\ inst.state = "ok") => inst.is_estimate_body_

(* C3: a step of an evaluation leaves the factor object unchanged and      *)
(* touches the locals and buffers of its own call only, and the buffers a   *)
(* call has filled when it returns are those the same call fills when it    *)
(* runs alone, whatever the other threads do meanwhile.                     *)
C3_ReadOnlyEvaluation ==
  [][ /\ (inst.state = "ok" /\ pc' # pc) => inst' = inst
      /\ \A t \in Threads :
           /\ pc'[t] = pc[t] => (out'[t] = out[t] /\ loc'[t] = loc[t])
           /\ (pc'[t] # pc[t] /\ pc'[t] = "jacobians") =>
                out'[t].residuals = RunAlone(inst', call'[t]).residuals
           /\ (pc'[t] # pc[t] /\ pc'[t] = "done") =>
                out'[t] = RunAlone(inst', call'[t]) ]_vars

C3_Witness ==
  \E t, u \in Threads :
    /\ t # u /\ pc[t] = "done" /\ pc[u] = "jacobians"
    /\ call[t].parameters # call[u].parameters
    /\ inst.is_estimate_body_

(* C4: when a call returns, the residual is written, and the raw Jacobian  *)
(* buffer of a block is written exactly when the array and that block's     *)
(* buffer are non-null, with the width of the block, whatever the other     *)
(* blocks' buffers are.                                                     *)
C4_RawBufferSkip ==
  \A t \in Threads :
    pc[t] = "done" =>
      /\ out[t].residuals.written
      /\ \A i \in 1..Len(inst.dims) :
           /\ out[t].jacobians[i].written <=>
                (~call[t].jacobians.null /\ call[t].jacobians.blk[i])
           /\ out[t].jacobians[i].written =>
                Len(out[t].jacobians[i].v) = inst.dims[i]
           /\ ~out[t].jacobians[i].written => out[t].jacobians[i] = Untouched

C4_Witness ==
  \E t \in Threads :
    /\ pc[t] = "done" /\ inst.parameter_block_group_ = 2
    /\ ~call[t].jacobians.null
    /\ call[t].jacobians.blk = <<FALSE, TRUE, FALSE, TRUE>>
    /\ out[t].jacobians[2].written /\ ~out[t].jacobians[1].written

(* C10: when a call returns, the minimal Jacobian buffer of a block is     *)
(* written exactly when the raw array, the block's raw buffer, the minimal  *)
(* array and the block's minimal buffer are all non-null; a call through    *)
(* Evaluate writes no minimal Jacobian.                                     *)
C10_MinimalBufferIff ==
  \A t \in Threads :
    pc[t] = "done" =>
      /\ \A i \in 1..Len(inst.dims) :
           /\ out[t].jacobians_minimal[i].written <=>
                /\ ~call[t].jacobians.null /\ call[t].jacobians.blk[i]
                /\ ~call[t].jacobians_minimal.null
                /\ call[t].jacobians_minimal.blk[i]
           /\ ~out[t].jacobians_minimal[i].written =>
                out[t].jacobians_minimal[i] = Untouched
      /\ call[t].entry = "Evaluate" =>
           \A i \in 1..Len(inst.dims) : ~out[t].jacobians_minimal[i].written

C10_Witness ==
  \E t \in Threads :
    /\ pc[t] = "done" /\ call[t].entry = "EvaluateWithMinimalJacobians"
    /\ call[t].jacobians.null
    /\ ~call[t].jacobians_minimal.null
    /\ \A i \in 1..Len(inst.dims) :
         call[t].jacobians_minimal.blk[i] /\ ~out[t].jacobians_minimal[i].written

----------------------------------------------------------------------------
(* Helpers of the numeric properties *)

\* e = (satellite position - receiver position) / range at the receiver
\* position p
UnitLineOfSight(p) ==
  LET p_sat == inst.satellite_.sat_position
  IN  VDivide(VSub(p_sat, p), satelliteToReceiverDistance(p_sat, p))
\* observed - predicted Doppler of the call of thread t
RawResidual(t) == Error(inst, LocalsOf(inst, call[t].parameters))
\* 1 / (error_factor * system_error_ratio[system])
ClaimedWeight(ep, system) ==
  RInv(RMul(ep.doppler_error_factor, ep.system_error_ratio[system]))
\* ep2 increases the error factor or the system's ratio over ep1 and
\* decreases neither
Increases(ep1, ep2, system) ==
  /\ ~RLess(ep2.doppler_error_factor, ep1.doppler_error_factor)
  /\ ~RLess(ep2.system_error_ratio[system], ep1.system_error_ratio[system])
  /\ \/ RLess(ep1.doppler_error_factor, ep2.doppler_error_factor)
     \/ RLess(ep1.system_error_ratio[system], ep2.system_error_ratio[system])
\* the weighted residual the same raw residual has under ep2
WeightedUnder(ep2, raw) ==
  LinScale(setInformation(inst, ep2).square_root_information_, raw)

Deltas == {One, Q(4)}
Perturb(parameters, b, j, d) == [parameters EXCEPT ![b][j] = RAdd(@, d)]
WeightedResidualAt(I, parameters) == WeightedError(I, LocalsOf(I, parameters))
DifferenceDefined(I, parameters, b, j, d) ==
  /\ RangeRepresentable(I, Perturb(parameters, b, j, d))
  /\ RangeRepresentable(I, Perturb(parameters, b, j, RNeg(d)))
\* (r(x + d) - r(x - d)) / (2 d) for the parameter j of block b
CentralDifference(I, parameters, b, j, d) ==
  LinScale(RInv(RMul(Q(2), d)),
           LinSub(WeightedResidualAt(I, Perturb(parameters, b, j, d)),
                  WeightedResidualAt(I, Perturb(parameters, b, j, RNeg(d)))))

(* C5 as claimed: for a direct factor the blocks written are              *)
(* weighting * 0, weighting * (-e) and weighting * (-1).                    *)
C5_DirectJacobiansAsClaimed ==
  \A t \in Threads :
    (pc[t] = "done" /\ inst.parameter_block_group_ = 1) =>
      LET w == inst.square_root_information_
          e == UnitLineOfSight(call[t].parameters[1])
      IN  /\ out[t].jacobians[1].v = VScale(w, ZeroVec(3))
          /\ out[t].jacobians[2].v = VScale(w, VNeg(e))
          /\ out[t].jacobians[3].v = <<RMul(w, RNeg(One))>>

(* C5 amended: for a direct factor the blocks written are weighting * 0,   *)
(* weighting * (+e) and weighting * (-1), e the unit line of sight from the *)
(* receiver to the satellite.                                               *)
C5_DirectJacobians ==
  \A t \in Threads :
    (pc[t] = "done" /\ inst.parameter_block_group_ = 1) =>
      LET w == inst.square_root_information_
          e == UnitLineOfSight(call[t].parameters[1])
      IN  /\ out[t].jacobians[1].v = VScale(w, ZeroVec(3))
          /\ out[t].jacobians[2].v = VScale(w, e)
          /\ out[t].jacobians[3].v = <<RMul(w, RNeg(One))>>

C5_Witness ==
  \E t \in Threads :
    /\ pc[t] = "done" /\ inst.parameter_block_group_ = 1
    /\ inst.satellite_.system = "R"
    /\ inst.square_root_information_ # One
    /\ call[t].parameters[1] # ZeroVec(3)
    /\ out[t].jacobians[2].written

(* C6: for a body-referenced factor the raw pose Jacobian written is the   *)
(* minimal one, weighting * [0 | d/d(rotation)], times the lift matrix of   *)
(* the raw pose of this very call.                                          *)
C6_PoseLift ==
  \A t \in Threads :
    (pc[t] = "done" /\ inst.parameter_block_group_ = 2
       /\ out[t].jacobians[1].written) =>
      LET w == inst.square_root_information_
          minimal == VScale(w, ZeroVec(3) \o J_q_WS(inst, loc[t]))
          lift == liftJacobian(call[t].parameters[1])
      IN  /\ out[t].jacobians[1].v = [j \in 1..7 |-> Dot(minimal, Column(lift, j))]
          /\ out[t].jacobians_minimal[1].written =>
               /\ out[t].jacobians_minimal[1].v = minimal
               /\ out[t].jacobians[1].v =
                    [j \in 1..7 |-> Dot(out[t].jacobians_minimal[1].v, Column(lift, j))]

C6_Witness ==
  \E t \in Threads :
    /\ pc[t] = "done" /\ inst.parameter_block_group_ = 2
    /\ out[t].jacobians[1].written /\ out[t].jacobians_minimal[1].written
    /\ SubSeq(call[t].parameters[1], 4, 7) # QV(<<0, 0, 0, 1>>)
    /\ out[t].jacobians[1].v # ZeroVec(7)
    /\ out[t].jacobians[1].v #
         [j \in 1..7 |-> Dot(out[t].jacobians_minimal[1].v,
                             Column(liftJacobian(IdentityPose), j))]

(* C7 as claimed: the weighted residual is the raw residual times          *)
(* 1 / (error factor * system error ratio), the weighting fixed at          *)
(* construction, and under any increase of the factor or of the ratio the   *)
(* same raw residual has a strictly smaller weighted magnitude.             *)
C7_WeightingAsClaimed ==
  /\ inst.state = "ok" =>
       inst.square_root_information_ =
         ClaimedWeight(inst.error_parameter_, inst.satellite_.system)
  /\ \A t \in Threads :
       Weighed(t) =>
         LET raw == RawResidual(t)
         IN  /\ out[t].residuals.v =
                  LinScale(ClaimedWeight(inst.error_parameter_,
                                         inst.satellite_.system), raw)
             /\ \A ep2 \in ErrorParameters :
                  Increases(inst.error_parameter_, ep2, inst.satellite_.system) =>
                    LinLess(LinAbs(WeightedUnder(ep2, raw)),
                            LinAbs(out[t].residuals.v))

(* C7 amended: as claimed, the strict decrease holding for a non-zero raw  *)
(* residual; a zero raw residual has the weighted residual zero under       *)
(* every weighting.                                                         *)
C7_Weighting ==
  /\ inst.state = "ok" =>
       inst.square_root_information_ =
         ClaimedWeight(inst.error_parameter_, inst.satellite_.system)
  /\ \A t \in Threads :
       Weighed(t) =>
         LET raw == RawResidual(t)
         IN  /\ out[t].residuals.v =
                  LinScale(ClaimedWeight(inst.error_parameter_,
                                         inst.satellite_.system), raw)
             /\ \A ep2 \in ErrorParameters :
                  Increases(inst.error_parameter_, ep2, inst.satellite_.system) =>
                    IF raw = LinZero
                    THEN out[t].residuals.v = LinZero
                         /\ WeightedUnder(ep2, raw) = LinZero
                    ELSE LinLess(LinAbs(WeightedUnder(ep2, raw)),
                                 LinAbs(out[t].residuals.v))

C7_Witness ==
  \E t \in Threads :
    /\ Weighed(t) /\ RawResidual(t) # LinZero
    /\ inst.satellite_.system = "R"
    /\ \E ep2 \in ErrorParameters :
         /\ Increases(inst.error_parameter_, ep2, "R")
         /\ ep2.doppler_error_factor = inst.error_parameter_.doppler_error_factor

(* C8: a body-referenced factor with zero lever arm and zero angular       *)
(* velocity has the weighted residual of the direct factor evaluated at     *)
(* the converted position and the rotated velocity, its rotation and        *)
(* lever-arm Jacobians are zero and its velocity Jacobian is the direct     *)
(* one times the rotation ECEF <- ENU.                                      *)
C8_BodyReducesToDirect ==
  \A t \in Threads :
    (pc[t] = "done" /\ inst.parameter_block_group_ = 2
       /\ inst.angular_velocity_ = ZeroVec(3)
       /\ call[t].parameters[3] = ZeroVec(3)) =>
      LET direct == [inst EXCEPT !.is_estimate_body_ = FALSE,
                                 !.parameter_block_group_ = 1,
                                 !.dims = <<3, 3, 1>>]
          c == [parameters |->
                  << convert(inst.coordinate_, SubSeq(call[t].parameters[1], 1, 3)),
                     rotate(inst.coordinate_, SubSeq(call[t].parameters[2], 1, 3)),
                     call[t].parameters[4] >>,
                jacobians |-> [null |-> FALSE, blk |-> <<TRUE, TRUE, TRUE>>],
                jacobians_minimal |-> NullArray(3), entry |-> "Evaluate"]
          alone == RunAlone(direct, c)
      IN  /\ out[t].residuals = alone.residuals
          /\ out[t].jacobians[1].written => out[t].jacobians[1].v = ZeroVec(7)
          /\ out[t].jacobians_minimal[1].written =>
               out[t].jacobians_minimal[1].v = ZeroVec(6)
          /\ out[t].jacobians[3].written => out[t].jacobians[3].v = ZeroVec(3)
          /\ out[t].jacobians[2].written =>
               SubSeq(out[t].jacobians[2].v, 1, 3) =
                 VecMat(alone.jacobians[2].v, rotationMatrix(inst.coordinate_))
          /\ out[t].jacobians[4].written =>
               out[t].jacobians[4].v = alone.jacobians[3].v

C8_Witness ==
  \E t \in Threads :
    /\ pc[t] = "done" /\ inst.parameter_block_group_ = 2
    /\ inst.angular_velocity_set /\ inst.angular_velocity_ = ZeroVec(3)
    /\ call[t].parameters[3] = ZeroVec(3)
    /\ inst.coordinate_.R # Identity3
    /\ SubSeq(call[t].parameters[1], 4, 7) # QV(<<0, 0, 0, 1>>)
    /\ SubSeq(call[t].parameters[2], 1, 3) # ZeroVec(3)
    /\ out[t].jacobians[3].written

(* C9 as claimed: every Jacobian column written equals the central finite *)
(* difference of the weighted residual in that parameter.                   *)
C9_FiniteDifferenceAsClaimed ==
  \A t \in Threads :
    pc[t] = "done" =>
      \A b \in 1..Len(inst.dims) :
        out[t].jacobians[b].written =>
          \A j \in 1..inst.dims[b], d \in Deltas :
            DifferenceDefined(inst, call[t].parameters, b, j, d) =>
              CentralDifference(inst, call[t].parameters, b, j, d)
                = Lin(out[t].jacobians[b].v[j])

\* the derivative of the earth rotation correction in the receiver's ECEF
\* velocity
CorrectionVelocityGradient ==
  <<inst.satellite_.sat_position[2], RNeg(inst.satellite_.sat_position[1]), Zero>>

(* C9 amended: the clock column, and the six bias columns of a             *)
(* body-referenced factor, equal the central finite difference of the       *)
(* weighted residual; a velocity column equals the central finite           *)
(* difference of the weighted residual without its earth rotation           *)
(* correction, whose own share of the difference, weighting * OMGE/CLIGHT   *)
(* * (-d correction / d velocity), the column leaves out.                   *)
C9_FiniteDifference ==
  \A t \in Threads :
    pc[t] = "done" =>
      LET n == Len(inst.dims)
          p == call[t].parameters
          w == inst.square_root_information_
          gradient == IF inst.is_estimate_body_
                      THEN VecMat(CorrectionVelocityGradient,
                                  rotationMatrix(inst.coordinate_))
                      ELSE CorrectionVelocityGradient
      IN  \A d \in Deltas :
            /\ out[t].jacobians[n].written =>
                 CentralDifference(inst, p, n, 1, d) = Lin(out[t].jacobians[n].v[1])
            /\ out[t].jacobians[2].written =>
                 /\ \A j \in 1..3 :
                      CentralDifference(inst, p, 2, j, d) =
                        [a |-> out[t].jacobians[2].v[j],
                         k |-> RNeg(RMul(w, gradient[j]))]
                 /\ \A j \in 4..inst.dims[2] :
                      CentralDifference(inst, p, 2, j, d) = Lin(out[t].jacobians[2].v[j])

C9_Witness ==
  \E t \in Threads :
    /\ pc[t] = "done" /\ inst.parameter_block_group_ = 2
    /\ inst.coordinate_.R # Identity3
    /\ out[t].jacobians[2].written
    /\ \A j \in 1..3 : out[t].jacobians[2].v[j] # Zero
    /\ \E j \in 1..3 : CentralDifference(inst, call[t].parameters, 2, j, One).k # Zero

====
